---- MODULE Spec2Model ----
(***************************************************************************)
(* Model of src/app/onnx-test.tsx: the App component of a camera           *)
(* application that loads a YOLO model, runs one detection cycle per       *)
(* press of the Detect button, decodes the flat output array of the        *)
(* inference engine into Detection records and draws them.                 *)
(*                                                                         *)
(* JavaScript numbers are records [kind, val].  A finite number is         *)
(* [kind |-> "num", val |-> v] with v its value in hundredths (0.1 is 10,  *)
(* 16.7 is 1670, 999 is 99900); NaN, Infinity, -Infinity and the value     *)
(* undefined (the read of an array slot that does not exist) are the       *)
(* other kinds.                                                            *)
(***************************************************************************)
EXTENDS Integers, Sequences, FiniteSets, TLC

VARIABLES
    session,        \* useState session: "null" or "session"            (line 35)
    detections,     \* useState detections: sequence of Detection       (line 36)
    modelLoading,   \* useState modelLoading                            (line 37)
    error,          \* useState error: <<>> is null, else the message   (line 38)
    isProcessing,   \* useState isProcessing                            (line 39)
    cameraRef,      \* cameraRef.current: "null" or "CameraView"        (line 41)
    rendered,       \* the state values the committed render closed over
    loadPc,         \* position of loadModel                            (lines 47-61)
    cycles,         \* the runDetection invocations in flight, by slot  (lines 63-146)
    last,           \* the step taken last (event, slot, inference result) and
                    \* how the cycles before it ended
    dOutput,        \* decoder run: the flat output array               (line 110)
    dI,             \* decoder run: the loop index i                    (line 117)
    dDets,          \* decoder run: the local detections list           (line 111)
    dWindows,       \* decoder run: offsets of the windows examined     (line 118)
    dReads,         \* decoder run: array slots read so far             (lines 119-130)
    dPc,            \* decoder run: "loop", "done", or "off" when not run alone
    pViewport,      \* Dimensions.get('window'): <<width, height>>      (line 149)
    pRects,         \* the rectangles renderBoxes last drew            (lines 153-173)
    pPc             \* overlay: "render" (to draw), "drawn", or "off"

appVars == <<session, detections, modelLoading, error, isProcessing, cameraRef,
             rendered, loadPc, cycles, last>>
decVars == <<dOutput, dI, dDets, dWindows, dReads, dPc>>
projVars == <<pViewport, pRects, pPc>>
vars == <<session, detections, modelLoading, error, isProcessing, cameraRef,
          rendered, loadPc, cycles, last, dOutput, dI, dDets, dWindows, dReads, dPc,
          pViewport, pRects, pPc>>

(***************************************************************************)
(* JavaScript numbers                                                      *)
(***************************************************************************)
Num(v) == [kind |-> "num", val |-> v]
NaN == [kind |-> "nan", val |-> 0]
Infinity == [kind |-> "inf", val |-> 0]
NegInfinity == [kind |-> "ninf", val |-> 0]
Undefined == [kind |-> "undefined", val |-> 0]

\* An integer n as a JavaScript number (values are kept in hundredths).
Int2Num(n) == Num(n * 100)

\* ToNumber, as applied by Math.floor and by the relational operators:
\* undefined converts to NaN, a number is itself.
ToNumber(x) == IF x.kind = "undefined" THEN NaN ELSE x

\* Math.trunc in place of Math.floor: the fractional part removed, toward zero.
MathFloor_Trunc(x) ==
    LET n == ToNumber(x)
    IN  IF n.kind # "num" THEN n
        ELSE IF n.val >= 0 THEN Num((n.val \div 100) * 100)
        ELSE Num(-(((-n.val) \div 100) * 100))

\* Math.floor: the largest integer not above x; NaN and the infinities are
\* returned as they are.
MathFloor(x) ==
    LET n == ToNumber(x)
    IN  IF n.kind = "num" THEN Num((n.val \div 100) * 100) ELSE n

\* a < b on JavaScript numbers: false when either side is NaN.
JsLt(a, b) ==
    LET x == ToNumber(a)
        y == ToNumber(b)
    IN  IF x.kind = "nan" \/ y.kind = "nan" THEN FALSE
        ELSE IF x.kind = "ninf" THEN y.kind # "ninf"
        ELSE IF x.kind = "inf" THEN FALSE
        ELSE IF y.kind = "inf" THEN TRUE
        ELSE IF y.kind = "ninf" THEN FALSE
        ELSE x.val < y.val

\* a >= b on JavaScript numbers: false when either side is NaN.
JsGe(a, b) ==
    LET x == ToNumber(a)
        y == ToNumber(b)
    IN  IF x.kind = "nan" \/ y.kind = "nan" THEN FALSE
        ELSE IF x.kind = "inf" THEN TRUE
        ELSE IF x.kind = "ninf" THEN y.kind = "ninf"
        ELSE IF y.kind = "ninf" THEN TRUE
        ELSE IF y.kind = "inf" THEN FALSE
        ELSE x.val >= y.val

\* a - b on JavaScript numbers.
JsSub(a, b) ==
    LET x == ToNumber(a)
        y == ToNumber(b)
    IN  IF x.kind = "nan" \/ y.kind = "nan" THEN NaN
        ELSE IF x.kind = "num" /\ y.kind = "num" THEN Num(x.val - y.val)
        ELSE IF x.kind = y.kind THEN NaN
        ELSE IF x.kind = "inf" \/ y.kind = "ninf" THEN Infinity
        ELSE NegInfinity

\* The sign of a number that is not NaN: -1, 0 or 1.
Sign(x) ==
    IF x.kind = "inf" THEN 1
    ELSE IF x.kind = "ninf" THEN -1
    ELSE IF x.val > 0 THEN 1 ELSE IF x.val < 0 THEN -1 ELSE 0

\* a * b on JavaScript numbers; the product of two values in hundredths is
\* brought back to hundredths.
JsMul(a, b) ==
    LET x == ToNumber(a)
        y == ToNumber(b)
    IN  IF x.kind = "nan" \/ y.kind = "nan" THEN NaN
        ELSE IF x.kind = "num" /\ y.kind = "num" THEN Num((x.val * y.val) \div 100)
        ELSE IF Sign(x) * Sign(y) = 0 THEN NaN
        ELSE IF Sign(x) * Sign(y) > 0 THEN Infinity
        ELSE NegInfinity

(***************************************************************************)
(* The label table and the decode loop                                     *)
(***************************************************************************)
CLASSES ==
    << "person", "bicycle", "car", "motorcycle", "airplane", "bus", "train", "truck",
       "boat", "traffic light", "fire hydrant", "stop sign", "parking meter", "bench",
       "bird", "cat", "dog", "horse", "sheep", "cow", "elephant", "bear", "zebra",
       "giraffe", "backpack", "umbrella", "handbag", "tie", "suitcase", "frisbee",
       "skis", "snowboard", "sports ball", "kite", "baseball bat", "baseball glove",
       "skateboard", "surfboard", "tennis racket", "bottle", "wine glass", "cup",
       "fork", "knife", "spoon", "bowl", "banana", "apple", "sandwich", "orange",
       "broccoli", "carrot", "hot dog", "pizza", "donut", "cake", "chair", "couch",
       "potted plant", "bed", "dining table", "toilet", "tv", "laptop", "mouse",
       "remote", "keyboard", "cell phone", "microwave", "oven", "toaster", "sink",
       "refrigerator", "book", "clock", "vase", "scissors", "teddy bear", "hair drier",
       "toothbrush" >>

valuesPerBox == 6

\* output[k] of a typed array (k counted from 0): undefined at or past its length.
At(output, k) == IF k >= 0 /\ k < Len(output) THEN output[k + 1] ELSE Undefined

\* The loop condition with <= in place of <: one window too many.
LoopContinues_Inclusive(output, i) == i * 6 <= Len(output)

\* The loop condition i < numDetections, numDetections = output.length / valuesPerBox
\* being a real-number quotient: i < L / 6 exactly when i * 6 < L.
LoopContinues(output, i) == i * valuesPerBox < Len(output)

\* const offset = i * valuesPerBox
Offset(i) == i * valuesPerBox

\* const classId = Math.floor(output[offset + 5])
ClassId(output, i) == MathFloor(At(output, Offset(i) + 5))

\* if (classId < 0 || classId >= CLASSES.length) continue;
SkipWindow(classId) == JsLt(classId, Int2Num(0)) \/ JsGe(classId, Int2Num(Len(CLASSES)))

\* The Detection pushed for window i.
MakeDetection(output, i) ==
    [ bbox |-> << At(output, Offset(i)), At(output, Offset(i) + 1),
                  At(output, Offset(i) + 2), At(output, Offset(i) + 3) >>,
      confidence |-> At(output, Offset(i) + 4),
      class |-> ClassId(output, i) ]

\* The loop body with a confidence threshold of 0.5 added to the skip test.
DecodeStep_Threshold(output, i, dets) ==
    IF SkipWindow(ClassId(output, i)) \/ JsLt(At(output, Offset(i) + 4), Num(50))
    THEN dets
    ELSE Append(dets, MakeDetection(output, i))

\* One pass of the loop body: the local detections list after window i.
DecodeStep(output, i, dets) ==
    IF SkipWindow(ClassId(output, i)) THEN dets
    ELSE Append(dets, MakeDetection(output, i))

\* The array slots one pass of the loop body reads.
SlotsRead(output, i) ==
    {Offset(i) + 4, Offset(i) + 5} \cup
    (IF SkipWindow(ClassId(output, i)) THEN {} ELSE Offset(i) .. (Offset(i) + 3))

RECURSIVE DecodeFrom(_, _, _)
DecodeFrom(output, i, dets) ==
    IF LoopContinues(output, i)
    THEN DecodeFrom(output, i + 1, DecodeStep(output, i, dets))
    ELSE dets

\* The whole loop, from the empty local list.
Decode(output) == DecodeFrom(output, 0, << >>)

\* CLASSES[det.class] of renderBoxes: the label, or "undefined" when the
\* property key is no index of the table.
ClassLabel(c) ==
    IF c.kind = "num" /\ c.val % 100 = 0 /\ c.val \div 100 \in 0 .. (Len(CLASSES) - 1)
    THEN CLASSES[(c.val \div 100) + 1]
    ELSE "undefined"

(***************************************************************************)
(* The component: state, render, loadModel, runDetection                   *)
(***************************************************************************)
MaxInFlight == 2        \* runDetection invocations that may be suspended at once

NullError == << >>

\* "Detection failed: " + (err as Error).message
DetectionFailed(message) == << "Detection failed: ", message >>

ModelLoadFailed == << "Failed to load model" >>

\* What session.run may resolve to: results.output0?.data absent, or a typed array.
NoData == [hasData |-> FALSE, data |-> << >>]
Data(output) == [hasData |-> TRUE, data |-> output]

\* Windows [x1, y1, x2, y2, score, class_id] the engine's arrays are made of.
PersonWindow == << Num(10), Num(10), Num(40), Num(40), Num(90), Int2Num(0) >>
OutOfRangeWindow == << Num(10), Num(10), Num(20), Num(20), Num(99), Int2Num(999) >>
NaNClassWindow == << Num(0), Num(0), Num(100), Num(100), Num(50), NaN >>
\* The first n values of an array (all of it when it is shorter).
Prefix(output, n) == [k \in 1 .. (IF n < Len(output) THEN n ELSE Len(output)) |-> output[k]]

RECURSIVE Flatten(_)
Flatten(ws) == IF ws = << >> THEN << >> ELSE Head(ws) \o Flatten(Tail(ws))

WindowSeqs(pool, n) == UNION {[1 .. k -> pool] : k \in 0 .. n}

\* The arrays session.run may return: empty, one window, an undecodable class,
\* two windows, and an array cut short of a whole window.
EngineOutputs ==
    { << >>,
      PersonWindow,
      OutOfRangeWindow,
      NaNClassWindow \o PersonWindow,
      Prefix(PersonWindow, 4) }

EngineResults == {NoData} \cup {Data(o) : o \in EngineOutputs}

\* err.message of what an external call (or a property read of its result) throws.
ThrownMessages == {"native error"}

Slots == 1 .. MaxInFlight
\* pc: where the invocation is suspended; before: the detections on screen when
\* it started; captures, runs: its calls of takePictureAsync and session.run.
IdleCycle == [pc |-> "idle", before |-> << >>, captures |-> 0, runs |-> 0]
InFlight == {c \in Slots : cycles[c].pc # "idle"}
\* The steps in which a cycle ends in the catch block.
FailureEvents ==
    {"noPhoto", "captureThrew", "imagePrepError", "resizeThrew", "noDetectionData",
     "runThrew"}

\* The record of a step: for a step that ends a cycle, before is the detections
\* list the cycle started from.  afterFailure: a cycle has failed and no detect
\* request has been accepted since.  finished: how the cycle that ended most
\* recently ended.
Step(event, c, results, before) ==
    [event |-> event, cycle |-> c, results |-> results, before |-> before,
     afterFailure |-> IF event \in FailureEvents THEN TRUE
                      ELSE IF event = "accepted" THEN FALSE
                      ELSE last.afterFailure,
     finished |-> IF event \in FailureEvents THEN "failure"
                  ELSE IF event = "success" THEN "success"
                  ELSE last.finished]

\* The record of the first render, before any step.
Mounted ==
    [event |-> "mount", cycle |-> 0, results |-> NoData, before |-> << >>,
     afterFailure |-> FALSE, finished |-> "none"]

\* The values of the state a render closes over: runDetection and the JSX read these.
Snapshot == [session |-> session, modelLoading |-> modelLoading,
             isProcessing |-> isProcessing]

AppInit ==
    /\ session = "null"
    /\ detections = << >>
    /\ modelLoading = TRUE
    /\ error = NullError
    /\ isProcessing = FALSE
    /\ cameraRef = "null"
    /\ rendered = [session |-> "null", modelLoading |-> TRUE, isProcessing |-> FALSE]
    /\ loadPc = "download"
    /\ cycles = [c \in Slots |-> IdleCycle]
    /\ last = Mounted

DecodeIdle ==
    /\ dOutput = << >>
    /\ dI = 0
    /\ dDets = << >>
    /\ dWindows = << >>
    /\ dReads = {}
    /\ dPc = "off"

ProjectIdle ==
    /\ pViewport = << 0, 0 >>
    /\ pRects = << >>
    /\ pPc = "off"

Init == AppInit /\ DecodeIdle /\ ProjectIdle

\* React re-renders after a state change: the new closures see the current
\* state, and committing <CameraView ref={cameraRef}> sets cameraRef.current.
Render ==
    /\ rendered # Snapshot
    /\ rendered' = Snapshot
    /\ cameraRef' = IF modelLoading THEN "null" ELSE "CameraView"
    /\ last' = Step("render", 0, NoData, << >>)
    /\ UNCHANGED decVars /\ UNCHANGED projVars /\ UNCHANGED <<session, detections, modelLoading, error, isProcessing, loadPc, cycles>>

\* loadModel: await modelAsset.downloadAsync() resolves.
DownloadReturns ==
    /\ loadPc = "download"
    /\ loadPc' = "create"
    /\ last' = Step("downloaded", 0, NoData, << >>)
    /\ UNCHANGED decVars /\ UNCHANGED projVars /\ UNCHANGED <<session, detections, modelLoading, error, isProcessing, cameraRef,
                   rendered, cycles>>

\* loadModel: await InferenceSession.create(...) resolves.
LoadSucceeds ==
    /\ loadPc = "create"
    /\ session' = "session"
    /\ modelLoading' = FALSE
    /\ loadPc' = "loaded"
    /\ last' = Step("loaded", 0, NoData, << >>)
    /\ UNCHANGED decVars /\ UNCHANGED projVars /\ UNCHANGED <<detections, error, isProcessing, cameraRef, rendered, cycles>>

\* loadModel: either awaited call rejects.
LoadFails ==
    /\ loadPc \in {"download", "create"}
    /\ error' = ModelLoadFailed
    /\ modelLoading' = FALSE
    /\ loadPc' = "failed"
    /\ last' = Step("loadFailed", 0, NoData, << >>)
    /\ UNCHANGED decVars /\ UNCHANGED projVars /\ UNCHANGED <<session, detections, isProcessing, cameraRef, rendered, cycles>>

\* The Detect button is mounted (modelLoading false in the render) and not disabled.
Pressable == ~rendered.modelLoading /\ ~rendered.isProcessing

\* The guard of runDetection without its session test.
Refuses_NoSessionCheck == cameraRef = "null" \/ rendered.isProcessing

\* if (!session || !cameraRef.current || isProcessing) return;
Refuses == rendered.session = "null" \/ cameraRef = "null" \/ rendered.isProcessing

\* A tap where the Detect button is not mounted or is disabled: no handler runs.
PressIgnored ==
    /\ ~Pressable
    /\ last' = Step("ignored", 0, NoData, << >>)
    /\ UNCHANGED decVars /\ UNCHANGED projVars /\ UNCHANGED <<session, detections, modelLoading, error, isProcessing, cameraRef,
                   rendered, loadPc, cycles>>

\* runDetection with setError(null) moved above its guard.
RunDetectionRefused_ClearsError ==
    /\ ~rendered.modelLoading /\ ~rendered.isProcessing
    /\ rendered.session = "null" \/ cameraRef = "null" \/ rendered.isProcessing
    /\ error' = NullError
    /\ last' = Step("refused", 0, NoData, << >>)
    /\ UNCHANGED decVars /\ UNCHANGED projVars
    /\ UNCHANGED <<session, detections, modelLoading, isProcessing, cameraRef,
                   rendered, loadPc, cycles>>

\* runDetection returns at its first line.
RunDetectionRefused ==
    /\ Pressable
    /\ Refuses
    /\ last' = Step("refused", 0, NoData, << >>)
    /\ UNCHANGED decVars /\ UNCHANGED projVars /\ UNCHANGED <<session, detections, modelLoading, error, isProcessing, cameraRef,
                   rendered, loadPc, cycles>>

\* runDetection passes its first line and suspends in takePictureAsync.
RunDetectionAccepted ==
    /\ Pressable
    /\ ~Refuses
    /\ \E c \in Slots :
        /\ cycles[c].pc = "idle"
        /\ \A b \in Slots : cycles[b].pc = "idle" => c <= b
        /\ isProcessing' = TRUE
        /\ error' = NullError
        /\ cycles' = [cycles EXCEPT ![c] = [pc |-> "capture", before |-> detections,
                                            captures |-> 1, runs |-> 0]]
        /\ last' = Step("accepted", c, NoData, << >>)
    /\ UNCHANGED decVars /\ UNCHANGED projVars /\ UNCHANGED <<session, detections, modelLoading, cameraRef, rendered, loadPc>>

\* The catch block without the finally block: the busy flag is not released.
Fails_NoFinally(c, event, message) ==
    /\ error' = DetectionFailed(message)
    /\ cycles' = [cycles EXCEPT ![c] = IdleCycle]
    /\ last' = Step(event, c, NoData, cycles[c].before)
    /\ UNCHANGED decVars /\ UNCHANGED projVars
    /\ UNCHANGED <<session, detections, modelLoading, isProcessing, cameraRef,
                   rendered, loadPc>>

\* catch (err) { setError(...) } finally { setIsProcessing(false) }
Fails(c, event, message) ==
    /\ error' = DetectionFailed(message)
    /\ isProcessing' = FALSE
    /\ cycles' = [cycles EXCEPT ![c] = IdleCycle]
    /\ last' = Step(event, c, NoData, cycles[c].before)
    /\ UNCHANGED decVars /\ UNCHANGED projVars /\ UNCHANGED <<session, detections, modelLoading, cameraRef, rendered, loadPc>>

\* takePictureAsync resolves; with a photo, manipulateAsync is called, and
\* without one reading photo.uri throws.
CaptureReturns(c) ==
    /\ cycles[c].pc = "capture"
    /\ \/ /\ cycles' = [cycles EXCEPT ![c].pc = "resize"]
          /\ last' = Step("captured", c, NoData, << >>)
          /\ UNCHANGED decVars /\ UNCHANGED projVars /\ UNCHANGED <<session, detections, modelLoading, error, isProcessing,
                         cameraRef, rendered, loadPc>>
       \/ \E m \in ThrownMessages : Fails(c, "noPhoto", m)

\* takePictureAsync rejects.
CaptureThrows(c) ==
    /\ cycles[c].pc = "capture"
    /\ \E m \in ThrownMessages : Fails(c, "captureThrew", m)

\* manipulateAsync resolves: without base64 the cycle throws, with it the
\* bytes are put in a tensor and session.run is called.
ResizeReturns(c) ==
    /\ cycles[c].pc = "resize"
    /\ \E base64 \in {"undefined", "", "base64"} :
        IF base64 \in {"undefined", ""}
        THEN Fails(c, "imagePrepError", "Failed to process image")
        ELSE /\ cycles' = [cycles EXCEPT ![c].pc = "run", ![c].runs = @ + 1]
             /\ last' = Step("resized", c, NoData, << >>)
             /\ UNCHANGED decVars /\ UNCHANGED projVars /\ UNCHANGED <<session, detections, modelLoading, error, isProcessing,
                            cameraRef, rendered, loadPc>>

\* manipulateAsync rejects.
ResizeThrows(c) ==
    /\ cycles[c].pc = "resize"
    /\ \E m \in ThrownMessages : Fails(c, "resizeThrew", m)

\* The new detections appended to the list on screen instead of replacing it.
NewDetections_Append(old, output) == old \o Decode(output)

\* The detections the cycle stores for the array session.run returned.
NewDetections(old, output) == Decode(output)

\* session.run resolves: without output0 data the cycle throws, with it the
\* array is decoded and stored.
RunReturns(c) ==
    /\ cycles[c].pc = "run"
    /\ \E results \in EngineResults :
        IF ~results.hasData
        THEN Fails(c, "noDetectionData", "No detection results")
        ELSE /\ detections' = NewDetections(detections, results.data)
             /\ isProcessing' = FALSE
             /\ cycles' = [cycles EXCEPT ![c] = IdleCycle]
             /\ last' = Step("success", c, results, cycles[c].before)
             /\ UNCHANGED decVars /\ UNCHANGED projVars /\ UNCHANGED <<session, modelLoading, error, cameraRef, rendered, loadPc>>

\* session.run rejects.
RunThrows(c) ==
    /\ cycles[c].pc = "run"
    /\ \E m \in ThrownMessages : Fails(c, "runThrew", m)

Next ==
    \/ Render
    \/ DownloadReturns
    \/ LoadSucceeds
    \/ LoadFails
    \/ PressIgnored
    \/ RunDetectionRefused
    \/ RunDetectionAccepted
    \/ \E c \in Slots : CaptureReturns(c)
    \/ \E c \in Slots : CaptureThrows(c)
    \/ \E c \in Slots : ResizeReturns(c)
    \/ \E c \in Slots : ResizeThrows(c)
    \/ \E c \in Slots : RunReturns(c)
    \/ \E c \in Slots : RunThrows(c)

Spec == Init /\ [][Next]_vars

\* Every awaited external call settles: a suspended invocation is resumed, by
\* the call's result or by what it throws.
ExternalCallsSettle ==
    \A c \in Slots :
        /\ WF_vars(CaptureReturns(c) \/ CaptureThrows(c))
        /\ WF_vars(ResizeReturns(c) \/ ResizeThrows(c))
        /\ WF_vars(RunReturns(c) \/ RunThrows(c))

FairSpec == Spec /\ ExternalCallsSettle

(***************************************************************************)
(* The decode loop run alone, pass by pass, on every array of a bounded    *)
(* set: whole windows and arrays cut short of a multiple of valuesPerBox.  *)
(***************************************************************************)
MaxWindows == 3         \* windows in an array given to the decode loop

\* [x1, y1, x2, y2, score, class_id] with each class value of interest.
Window(x1, y1, x2, y2, score, classValue) ==
    << Num(x1), Num(y1), Num(x2), Num(y2), Num(score), classValue >>

DecoderWindows ==
    { Window(10, 10, 40, 40, 90, Int2Num(0)),
      Window(50, 50, 90, 90, 40, Int2Num(16)),
      Window(10, 10, 20, 20, 99, Int2Num(999)),
      Window(0, 0, 100, 100, 0, Int2Num(79)),
      Window(0, 0, 100, 100, 100, Int2Num(80)),
      Window(20, 20, 30, 30, 70, Int2Num(-1)),
      Window(-50, 0, 50, 50, 150, Num(1670)),
      Window(30, 30, 60, 60, -20, Num(-50)),
      Window(0, 0, 10, 10, 50, NaN),
      Window(0, 0, 10, 10, 60, Infinity),
      Window(0, 0, 10, 10, 80, NegInfinity) }

DecoderInputs ==
    { Prefix(Flatten(ws), n) :
        ws \in WindowSeqs(DecoderWindows, MaxWindows),
        n \in 0 .. (MaxWindows * valuesPerBox) }

DecodeInit ==
    /\ AppInit
    /\ ProjectIdle
    /\ dOutput \in DecoderInputs
    /\ dI = 0
    /\ dDets = << >>
    /\ dWindows = << >>
    /\ dReads = {}
    /\ dPc = "loop"

\* One pass of the for loop.
DecodePass ==
    /\ dPc = "loop"
    /\ LoopContinues(dOutput, dI)
    /\ dDets' = DecodeStep(dOutput, dI, dDets)
    /\ dWindows' = Append(dWindows, [offset |-> Offset(dI),
                                     kept |-> ~SkipWindow(ClassId(dOutput, dI))])
    /\ dReads' = dReads \cup SlotsRead(dOutput, dI)
    /\ dI' = dI + 1
    /\ UNCHANGED <<dOutput, dPc>>
    /\ UNCHANGED appVars
    /\ UNCHANGED projVars

\* The loop condition fails: the local list is what setDetections receives.
DecodeExit ==
    /\ dPc = "loop"
    /\ ~LoopContinues(dOutput, dI)
    /\ dPc' = "done"
    /\ UNCHANGED <<dOutput, dI, dDets, dWindows, dReads>>
    /\ UNCHANGED appVars
    /\ UNCHANGED projVars

DecodeNext ==
    \/ DecodePass
    \/ DecodeExit

SpecDecode == DecodeInit /\ [][DecodeNext]_vars

\* The loop run pass by pass ends with what Decode computes.
DecodeAgrees == dPc = "done" => dDets = Decode(dOutput)

(***************************************************************************)
(* renderBoxes run alone: the overlay drawn for the detections on screen   *)
(* after a successful cycle, on each viewport, and drawn again when the    *)
(* viewport changes.                                                       *)
(***************************************************************************)
MaxBoxes == 2           \* windows in the array whose detections are drawn

\* Boxes inside the image, the whole image, boxes reaching outside [0,1] and a
\* box whose corners are exchanged.
BoxWindows ==
    { Window(0, 0, 100, 100, 90, Int2Num(0)),
      Window(-50, 0, 50, 50, 80, Int2Num(16)),
      Window(10, 10, 40, 40, 90, Int2Num(0)),
      Window(80, 80, 150, 120, 50, Int2Num(2)),
      Window(60, 60, 20, 20, 70, Int2Num(79)) }

\* Window sizes in pixels.
Viewports == { << 100, 100 >>, << 360, 640 >>, << 412, 915 >> }

\* The rectangle with every edge moved into the viewport.
ProjectBox_Clamped(bbox, screenWidth, screenHeight) ==
    LET Clamp(v, hi) == IF JsLt(v, Int2Num(0)) THEN Int2Num(0)
                        ELSE IF JsGe(v, hi) THEN hi ELSE v
    IN  [ x |-> Clamp(JsMul(bbox[1], screenWidth), screenWidth),
          y |-> Clamp(JsMul(bbox[2], screenHeight), screenHeight),
          width |-> Clamp(JsMul(JsSub(bbox[3], bbox[1]), screenWidth), screenWidth),
          height |-> Clamp(JsMul(JsSub(bbox[4], bbox[2]), screenHeight), screenHeight) ]

\* boxX, boxY, boxWidth, boxHeight of one detection.
ProjectBox(bbox, screenWidth, screenHeight) ==
    [ x |-> JsMul(bbox[1], screenWidth),
      y |-> JsMul(bbox[2], screenHeight),
      width |-> JsMul(JsSub(bbox[3], bbox[1]), screenWidth),
      height |-> JsMul(JsSub(bbox[4], bbox[2]), screenHeight) ]

\* detections.map(...): the <Rect> of every detection, in order.
RenderBoxes(dets, viewport) ==
    [idx \in 1 .. Len(dets) |->
        ProjectBox(dets[idx].bbox, Int2Num(viewport[1]), Int2Num(viewport[2]))]

\* The component after a successful cycle and its render, on some viewport.
ProjectInit ==
    /\ session = "session"
    /\ detections \in {Decode(Flatten(ws)) : ws \in WindowSeqs(BoxWindows, MaxBoxes)}
    /\ modelLoading = FALSE
    /\ error = NullError
    /\ isProcessing = FALSE
    /\ cameraRef = "CameraView"
    /\ rendered = [session |-> "session", modelLoading |-> FALSE, isProcessing |-> FALSE]
    /\ loadPc = "loaded"
    /\ cycles = [c \in Slots |-> IdleCycle]
    /\ last = [event |-> "render", cycle |-> 0, results |-> NoData, before |-> << >>,
                afterFailure |-> FALSE, finished |-> "success"]
    /\ DecodeIdle
    /\ pViewport \in Viewports
    /\ pRects = << >>
    /\ pPc = "render"

\* renderBoxes: reads the window size and the detections, returns the overlay.
DrawBoxes ==
    /\ pPc = "render"
    /\ pRects' = RenderBoxes(detections, pViewport)
    /\ pPc' = "drawn"
    /\ UNCHANGED pViewport
    /\ UNCHANGED appVars
    /\ UNCHANGED decVars

\* The window is resized or rotated: the next render reads the new size.
ViewportChanges ==
    /\ pPc = "drawn"
    /\ pViewport' \in Viewports \ {pViewport}
    /\ pPc' = "render"
    /\ UNCHANGED pRects
    /\ UNCHANGED appVars
    /\ UNCHANGED decVars

ProjectNext ==
    \/ DrawBoxes
    \/ ViewportChanges

SpecProject == ProjectInit /\ [][ProjectNext]_vars

(***************************************************************************)
(* Properties                                                              *)
(***************************************************************************)

\* A class value that is an index of the label table: an integer c, 0 <= c < 80.
IsLabelIndex(c) ==
    c.kind = "num" /\ c.val % 100 = 0 /\ 0 <= c.val /\ c.val < 100 * Len(CLASSES)

\* Window j (from 1) of an array of whole windows.
WindowOf(output, j) == SubSeq(output, (j - 1) * 6 + 1, j * 6)

\* The windows of an array of whole windows, in order.
WindowsOf(output) == [j \in 1 .. (Len(output) \div 6) |-> WindowOf(output, j)]

\* The class index of a window is in range: its class value, rounded down to
\* an integer c, has 0 <= c < labelCount.
ClassInRange(w) ==
    w[6].kind = "num" /\ 0 <= w[6].val \div 100 /\ w[6].val \div 100 < Len(CLASSES)

\* The Detection a window stands for.
DetectionOf(w) ==
    [bbox |-> << w[1], w[2], w[3], w[4] >>, confidence |-> w[5],
     class |-> Num((w[6].val \div 100) * 100)]

\* The subsequence of in-range windows, as detections.
InRangeDetections(output) ==
    LET kept == SelectSeq(WindowsOf(output), ClassInRange)
    IN  [j \in 1 .. Len(kept) |-> DetectionOf(kept[j])]

WholeWindows(output) == Len(output) % 6 = 0

\* C1: at most one detection cycle is in flight at any time.
C1_OneCycleInFlight == Cardinality(InFlight) <= 1

\* C2: in every reachable state every Detection in the detections list has a
\* class that is an integer index of the label table, so that its label
\* lookup is defined.
C2_ClassIsLabelIndex ==
    \A k \in 1 .. Len(detections) :
        /\ IsLabelIndex(detections[k].class)
        /\ ClassLabel(detections[k].class) # "undefined"

\* C3: for an array of whole windows the decoded list is exactly the
\* subsequence of the windows whose class index is in range, in input order.
C3_ExactInRangeSubsequence ==
    (dPc = "done" /\ WholeWindows(dOutput)) => dDets = InRangeDetections(dOutput)

\* C4: a cycle aborted by ImagePrepError or NoDetectionData leaves the
\* detections list as it was when the cycle started, sets error to a message
\* and ends with isProcessing = false.
C4_AbortRestoresStart ==
    last.event \in {"imagePrepError", "noDetectionData"} =>
        /\ detections = last.before
        /\ error # NullError
        /\ ~isProcessing

\* C5: a detection cycle starts only from Ready: the session is loaded,
\* modelLoading is false and no cycle is in flight.
C5_StartsOnlyFromReady ==
    [][\A c \in Slots :
        (cycles[c].pc = "idle" /\ cycles'[c].pc # "idle") =>
            /\ session = "session"
            /\ ~modelLoading
            /\ ~isProcessing
            /\ InFlight = {}]_vars

\* C6: once model loading has failed, no cycle is ever in flight (no capture,
\* no inference call), isProcessing is false, detections is empty and the
\* load failure's message stays in error, whatever detect requests follow.
C6_LoadFailureIsFinal ==
    loadPc = "failed" =>
        /\ InFlight = {}
        /\ ~isProcessing
        /\ detections = << >>
        /\ error = ModelLoadFailed
        /\ session = "null"

\* C6 witness: a detect request was made, and refused, after the load failed.
C6_Witness == loadPc = "failed" /\ last.event = "refused" /\ ~rendered.modelLoading

\* C7: a cycle whose output array is present and empty ends as a success:
\* detections is the empty list, error is null, isProcessing is false.
C7_EmptyOutputSucceeds ==
    (last.event = "success" /\ last.results.data = << >>) =>
        /\ detections = << >>
        /\ error = NullError
        /\ ~isProcessing

\* C8: right after a successful cycle the detections list is exactly the
\* decode of that cycle's output array, whatever was in the list before.
C8_ReplacedByDecode ==
    last.event = "success" => detections = Decode(last.results.data)

\* C8 witness: a cycle that started from a non-empty list ended in success
\* with another non-empty list.
C8_Witness ==
    /\ last.event = "success"
    /\ last.before # << >>
    /\ detections # << >>
    /\ detections # last.before

\* C9: every Detection pushed copies the four box values and the score of its
\* window as they are, and a window whose class value gives a label index is
\* kept whatever its score.
C9_VerbatimNoThreshold ==
    LET kept == SelectSeq(dWindows, LAMBDA w : w.kept)
    IN  /\ Len(dDets) = Len(kept)
        /\ \A j \in 1 .. Len(dDets) :
              kept[j].offset + 6 <= Len(dOutput) =>
                  /\ dDets[j].bbox = SubSeq(dOutput, kept[j].offset + 1, kept[j].offset + 4)
                  /\ dDets[j].confidence = dOutput[kept[j].offset + 5]
        /\ \A j \in 1 .. Len(dWindows) :
              (/\ dWindows[j].offset + 6 <= Len(dOutput)
               /\ ClassInRange(SubSeq(dOutput, dWindows[j].offset + 1,
                                      dWindows[j].offset + 6)))
                  => dWindows[j].kept

\* C9 witness: a finished decode kept a window of score 0 and a window whose
\* score is above 1.
C9_Witness ==
    /\ dPc = "done"
    /\ \E j \in 1 .. Len(dDets) : dDets[j].confidence = Num(0)
    /\ \E j \in 1 .. Len(dDets) : dDets[j].confidence.val > 100

\* C10: for an array of L values, L a multiple of 6, the loop examines exactly
\* L/6 windows, window i at slots 6i .. 6i+5: together they cover every slot
\* once, and no slot at or past L is read.
C10_WindowsPartitionArray ==
    (dPc = "done" /\ WholeWindows(dOutput)) =>
        /\ Len(dWindows) = Len(dOutput) \div 6
        /\ \A j \in 1 .. Len(dWindows) : dWindows[j].offset = 6 * (j - 1)
        /\ UNION {dWindows[j].offset .. (dWindows[j].offset + 5) : j \in 1 .. Len(dWindows)}
               = 0 .. (Len(dOutput) - 1)
        /\ dReads \subseteq 0 .. (Len(dOutput) - 1)

\* C10 witness: a finished decode of a three-window array.
C10_Witness ==
    dPc = "done" /\ Len(dOutput) = 18 /\ Len(dWindows) = 3 /\ dReads # {}

\* The class value of the window examined j-th, and whether the window is whole.
ClassValueOf(j) == At(dOutput, dWindows[j].offset + 5)
WholeWindowAt(j) == dWindows[j].offset + 6 <= Len(dOutput)

\* The place in dDets of the Detection pushed for the window examined j-th.
KeptUpTo(j) == Cardinality({k \in 1 .. j : dWindows[k].kept})

\* A finite value with its fractional part removed (rounded toward zero).
Truncated(v) == IF v >= 0 THEN (v \div 100) * 100 ELSE -(((-v) \div 100) * 100)

\* C15 as claimed: the class index is the class value truncated toward zero,
\* so a window is kept exactly when -1 < value < 80 and stores the truncated
\* value; a value strictly between -1 and 0 is kept as class 0.
C15_TruncatedClassIndex ==
    \A j \in 1 .. Len(dWindows) :
        (WholeWindowAt(j) /\ ClassValueOf(j).kind = "num") =>
            /\ dWindows[j].kept <=>
                  (-100 < ClassValueOf(j).val /\ ClassValueOf(j).val < 100 * Len(CLASSES))
            /\ (dWindows[j].kept /\ KeptUpTo(j) <= Len(dDets)) =>
                  dDets[KeptUpTo(j)].class = Num(Truncated(ClassValueOf(j).val))

\* C15 amended: the class index is the class value rounded down (toward minus
\* infinity): a finite value v is kept exactly when 0 <= v < 80 and stores the
\* integer c with c <= v < c + 1, so a value strictly between -1 and 0 gives
\* -1 and is dropped; a class value that is no finite number is used as it is.
C15_FlooredClassIndex ==
    \A j \in 1 .. Len(dWindows) :
        WholeWindowAt(j) =>
            IF ClassValueOf(j).kind = "num"
            THEN /\ dWindows[j].kept <=>
                       (0 <= ClassValueOf(j).val /\ ClassValueOf(j).val < 100 * Len(CLASSES))
                 /\ (dWindows[j].kept /\ KeptUpTo(j) <= Len(dDets)) =>
                       LET c == dDets[KeptUpTo(j)].class
                       IN  /\ c.kind = "num"
                           /\ c.val % 100 = 0
                           /\ c.val <= ClassValueOf(j).val
                           /\ ClassValueOf(j).val < c.val + 100
            ELSE (dWindows[j].kept /\ KeptUpTo(j) <= Len(dDets)) =>
                       dDets[KeptUpTo(j)].class = ClassValueOf(j)

\* C15 witness: a finished decode dropped a window of class value -0.5 and
\* kept a window of class value 16.7 as class 16.
C15_Witness ==
    /\ dPc = "done"
    /\ \E j \in 1 .. Len(dWindows) :
          WholeWindowAt(j) /\ ClassValueOf(j) = Num(-50) /\ ~dWindows[j].kept
    /\ \E j \in 1 .. Len(dWindows) :
          /\ WholeWindowAt(j) /\ ClassValueOf(j) = Num(1670) /\ dWindows[j].kept
          /\ dDets[KeptUpTo(j)].class = Int2Num(16)

\* C11: the rectangle drawn for a box [x1, y1, x2, y2] on a viewport (W, H) is
\* x = x1*W, y = y1*H, width = (x2-x1)*W, height = (y2-y1)*H, unclamped:
\* [0,0,1,1] gives {0, 0, W, H}, [-0.5,0,0.5,0.5] on 100x100 gives
\* {-50, 0, 100, 50}; drawing changes nothing of the component's state.
C11_LinearUnclampedProjection ==
    /\ [](pPc = "drawn" =>
            /\ Len(pRects) = Len(detections)
            /\ \A k \in 1 .. Len(pRects) :
                  LET b == detections[k].bbox
                      W == pViewport[1]
                      H == pViewport[2]
                  IN  /\ pRects[k].x = Num(b[1].val * W)
                      /\ pRects[k].y = Num(b[2].val * H)
                      /\ pRects[k].width = Num((b[3].val - b[1].val) * W)
                      /\ pRects[k].height = Num((b[4].val - b[2].val) * H)
                      /\ b = << Num(0), Num(0), Num(100), Num(100) >> =>
                            pRects[k] = [x |-> Num(0), y |-> Num(0),
                                         width |-> Int2Num(W), height |-> Int2Num(H)]
                      /\ (b = << Num(-50), Num(0), Num(50), Num(50) >> /\ W = 100 /\ H = 100) =>
                            pRects[k] = [x |-> Int2Num(-50), y |-> Int2Num(0),
                                         width |-> Int2Num(100), height |-> Int2Num(50)])
    /\ [][pPc' = "drawn" =>
            UNCHANGED <<session, modelLoading, detections, error, isProcessing>>]_vars

\* C11 witness: the box [-0.5, 0, 0.5, 0.5] was drawn on the 100x100 viewport
\* with its left edge at -50, next to the box [0, 0, 1, 1].
C11_Witness ==
    /\ pPc = "drawn"
    /\ pViewport = << 100, 100 >>
    /\ \E k \in 1 .. Len(pRects) :
          /\ detections[k].bbox = << Num(-50), Num(0), Num(50), Num(50) >>
          /\ pRects[k].x = Int2Num(-50)
    /\ \E k \in 1 .. Len(pRects) :
          detections[k].bbox = << Num(0), Num(0), Num(100), Num(100) >>

\* The fields of the component's state the claims call the controller state.
controller == <<session, modelLoading, detections, error, isProcessing>>

\* C12: while the inference call of a cycle in flight has not returned, the
\* application stays in Detecting: isProcessing is true, detections and error
\* do not change, and no detect request is accepted.
C12_HungInferenceFreezes ==
    [][\A c \in Slots :
        (cycles[c].pc = "run" /\ cycles'[c].pc = "run") =>
            /\ isProcessing /\ isProcessing'
            /\ detections' = detections
            /\ error' = error
            /\ last'.event # "accepted"]_vars

\* C13: an accepted request makes at most one capture and at most one
\* inference call, and after a failed cycle no capture and no inference call
\* is made until a detect request is accepted.
C13_NoAutomaticRetry ==
    /\ [](\A c \in Slots : cycles[c].captures <= 1 /\ cycles[c].runs <= 1)
    /\ [][(last.afterFailure /\ last'.event # "accepted") =>
            \A c \in Slots : /\ cycles'[c].captures <= cycles[c].captures
                             /\ cycles'[c].runs <= cycles[c].runs]_vars

\* C14: the controller state changes only in a step that completes the model
\* load, starts an accepted cycle or completes a cycle; capture returning,
\* resize returning with its byte conversion, a refused or ignored request and
\* a render leave it unchanged.
C14_ChangesOnlyAtBoundaries ==
    [][controller' # controller =>
          last'.event \in {"loaded", "loadFailed", "accepted", "success"} \cup FailureEvents]_vars

\* C14 witness: the second cycle's resize has returned and the inference call
\* is pending, with the first cycle's detections still on screen.
C14_Witness ==
    /\ last.event = "resized"
    /\ detections # << >>
    /\ isProcessing
    /\ error = NullError

\* C16: every cycle in flight ends, and ends with isProcessing = false; with no
\* cycle in flight the busy flag is never left set.
C16_CycleEndsReleased ==
    /\ \A c \in Slots : (cycles[c].pc # "idle") ~> (cycles[c].pc = "idle" /\ ~isProcessing)
    /\ [](InFlight = {} => ~isProcessing)

\* C16 witness: a cycle has ended in the catch block and the flag is released.
C16_Witness ==
    /\ last.event \in FailureEvents
    /\ InFlight = {}
    /\ ~isProcessing

\* C17: when the capture, the resize or the inference call throws, error is a
\* message starting with "Detection failed: ", detections is what it was when
\* the cycle started, isProcessing is false and the cycle is over.
C17_ThrownFailureRestoresStart ==
    last.event \in {"captureThrew", "resizeThrew", "runThrew"} =>
        /\ Len(error) = 2 /\ error[1] = "Detection failed: "
        /\ detections = last.before
        /\ ~isProcessing
        /\ cycles[last.cycle].pc = "idle"

\* C18: error is null while a cycle is in flight and after every successful
\* cycle, and once the model has loaded a non-null error is that of the cycle
\* that finished most recently.
C18_ErrorIsTransient ==
    /\ (last.event = "accepted" => error = NullError)
    /\ (InFlight # {} => error = NullError)
    /\ (last.event = "success" => error = NullError)
    /\ ((loadPc = "loaded" /\ error # NullError) => last.finished = "failure")

====
